---- MODULE Spec2Model ----
(***************************************************************************)
(* Model of the KVSrecorder recording pipeline: AudioRecorder              *)
(* (src/audio_recorder.py) with its audit log helpers (src/utils.py).      *)
(*                                                                         *)
(* Three parties act on the state:                                         *)
(*   - the UI thread, which runs start_recording and stop_recording;       *)
(*   - the PortAudio callback thread, which runs audio_callback;           *)
(*   - the one or two ffmpeg encoder processes (the environment).          *)
(* Target 1 is the primary output, target 2 the secondary (dual format).   *)
(* The window (src/ui_components.py) adds the file monitor thread          *)
(* (src/file_monitor.py), which watches the primary output file, and the   *)
(* queue of integrity reports, one ReportGeneratorThread at a time.        *)
(***************************************************************************)
EXTENDS Integers, Sequences, FiniteSets, TLC

\* ---------------------------------------------------------------- bounds
MaxBuffers == 2      \* buffers the capture source delivers in one session
PipeCap == 1         \* buffers an encoder's stdin pipe holds before a write blocks
MaxClock == 1        \* last value of the wall clock, in ticks
MaxRequests == 3     \* report requests made to the window in one run
MaxTicks == 2        \* rounds of the file monitor's loop in one session
MaxFaults == 1       \* unusual events in one run: a call that fails, an encoder
                     \* that hangs or exits unasked, a start within the same
                     \* second as the start before it
TicksPerSec == 1     \* clock ticks per second of the "%H%M%S" timestamp
TicksPerMs == 1      \* clock ticks per millisecond of the log's time strings

P == {1, 2}

\* ------------------------------------------------------ log placeholders
InProgress == -1                          \* "In Progress"
SizeNA == -1                              \* "N/A"
FileNotFound == <<"File not found", 0, 0>>
NoLog == [exists |-> FALSE, hash |-> FileNotFound, size |-> SizeNA,
          start |-> 0, endTime |-> InProgress, duration |-> InProgress]

VARIABLES
  pc,                  \* UI thread: <<"idle", 0>> or <<step of stop_recording, target>>
  stream,              \* self.stream is set (capture source open)
  dual_format_enabled, \* self.dual_format_enabled
  ffmpeg_process,      \* [P -> BOOLEAN]: self.ffmpeg_process / self.ffmpeg_process2 is set
  frames,              \* len(self.frames): buffers delivered in this session
  current_filename,    \* the timestamp of self.current_filename (the session id)
  recording_start_datetime,
  recording_end_datetime,
  logged_write_error,  \* [P -> BOOLEAN]: the _logged_write_error1/2 attributes exist
  file_success,        \* [P -> BOOLEAN]: first_file_success / second_file_success
  now,                 \* the wall clock as last read by the program
  cb,                  \* callback thread: <<"idle", 0>>, <<"w", p>> before the write
                       \* to pipe p, <<"b", p>> blocked inside that write
  proc,                \* [P -> "none" | "running" | "exited"]: the encoder process
                       \* behind the recorder's handle
  reads,               \* [P -> BOOLEAN]: the encoder reads its stdin
  pipeFill,            \* [P -> 0..PipeCap]: buffers waiting in the stdin pipe
  writeFails,          \* [P -> BOOLEAN]: writes to the pipe raise an OSError
  file,                \* [P -> -1..]: size of the output file, -1 when missing
  returncode,          \* [P -> "none" | "zero" | "nonzero"]: exit status of the
                       \* encoder process
  stdinClosed,         \* [P -> BOOLEAN]: stdin.close() was called
  sigterm,             \* [P -> BOOLEAN]: terminate() was called
  sigkill,             \* [P -> BOOLEAN]: kill() was called
  log,                 \* [P -> the fields of the audit log, NoLog when missing]
  \* ---- history variables (observations, never read by the program)
  startIn,             \* inputs of the latest start_recording
  startResult,         \* "none" | "ok" | "fail": return value of the latest start
  idReused,            \* the latest start got the id of the start before it
  stopResult,          \* "none" | "ok" | "invalid" | "exception": latest stop
  hashed,              \* [P -> BOOLEAN]: calculate_file_hash ran in the latest stop
  sizeAtStop,          \* [P -> -1..]: size of each file when the latest stop
                       \* checked it
  warned,              \* [P -> BOOLEAN]: the latest stop reported the exit
                       \* status of encoder p (printed it and, when the stderr
                       \* text names a known error, showed a warning dialog)
  handed,              \* targets whose file the latest stop put on the report queue
  err_output,          \* the encoder text in the "Recording Error" dialog of the
                       \* latest stop: "" or "stderr"
  logCreatedNoFile,    \* [P -> BOOLEAN]: the log was created while the file was missing
  logCalls,            \* targets create_recording_log was called for in the latest start
  logUpdated,          \* [P -> BOOLEAN]: update_recording_log rewrote the log in
                       \* the latest stop
  errLogs,             \* [P -> Nat]: "Write error (p)" messages shown in this session
  failed,              \* [P -> BOOLEAN]: a write to pipe p raised an error other
                       \* than BrokenPipeError in this session
  fedDead,             \* [P -> Nat]: buffers delivered in this session while
                       \* encoder p had exited
  sent,                \* [P -> Seq(1..MaxBuffers)]: the buffers of this session
                       \* whose write to pipe p returned, buffer k being the
                       \* k-th that was delivered
  faults,              \* unusual events so far
  \* ---- the selections of a start and what start_recording derives from them
  config,              \* the selections and probe results of the latest setup
  setup,               \* the paths, codecs and dialogs of the latest setup
  \* ---- the window's file monitor
  file_monitor,        \* self.file_monitor is set
  is_running,          \* FileMonitorThread.is_running
  mon,                 \* monitor thread: "none" (not started), "top" (the loop
                       \* test), "exists", "getsize", "sleep", "finished"
  ui,                  \* the window and its monitor: "idle", "recording",
                       \* "wait" (inside file_monitor.wait()), "stopped"
  ticks,               \* rounds of the loop begun (history)
  emits,               \* file_status signals emitted (history)
  status,              \* the arguments of the latest file_status signal
  statError,           \* the latest os.path.getsize raised
  failedTicks,         \* rounds that met a missing file or a failing stat
  \* ---- the window's report queue
  report_queue,        \* self.report_queue: the files waiting, the one being
                       \* processed first
  is_report_processing,\* self.is_report_processing
  running,             \* report threads started whose report_finished signal
                       \* has not been handled yet
  timers,              \* pending QTimer.singleShot(1000, process_report_queue)
  dialogs,             \* the files whose "No valid audio file" dialogs are
                       \* open, the innermost last
  present,             \* the audio files that exist
  requests,            \* calls of queue_report_generation so far
  accepted,            \* the files appended to the queue, in order (history)
  started,             \* the files process_report_queue took up, in order
                       \* (history)
  handled,             \* calls of handle_report_finished so far (history)
  rejected             \* dialogs shown so far (history)

uiVars == <<stream, dual_format_enabled, ffmpeg_process, current_filename,
            recording_start_datetime, recording_end_datetime, file_success, now>>
cbVars == <<cb, frames, logged_write_error, errLogs, failed, fedDead,
            sent>>
envVars == <<proc, reads, pipeFill, writeFails, file, returncode>>
sigVars == <<stdinClosed, sigterm, sigkill>>
logVars == <<log, logCreatedNoFile, logCalls, logUpdated>>
histVars == <<startIn, startResult, idReused, stopResult, hashed, sizeAtStop,
              warned, handed, err_output>>
cfgVars == <<config, setup>>
recVars == <<pc, uiVars, cbVars, envVars, sigVars, logVars, histVars, faults>>

monVars == <<file_monitor, is_running, mon, ui, ticks, emits, status,
             statError, failedTicks>>

queueVars == <<report_queue, is_report_processing, running, timers, dialogs,
               present, requests, accepted, started, handled, rejected>>

\* what the recorder's start, stop, callback and encoders leave alone
sideVars == <<cfgVars, monVars, queueVars>>

vars == <<recVars, sideVars>>

AllFalse == [p \in P |-> FALSE]

\* before the first start: nothing selected, no attribute set
NoConfig == [id |-> 0, dual |-> FALSE, fmt |-> <<"", "">>, codec |-> <<"", "">>,
             variant |-> <<"", "">>, bitrate |-> <<"", "">>, sample_rate |-> "",
             versionOk |-> FALSE, encodersOk |-> FALSE, codec_output |-> {},
             reply |-> "No"]

NoSetup == [output_file |-> <<"", "">>, log_file |-> <<"", "">>,
            codec |-> <<"", "">>, asked |-> <<<<>>, <<>>>>,
            warnings |-> <<0, 0>>, infos |-> <<0, 0>>,
            command |-> <<<<>>, <<>>>>]

NoStart == [dual |-> FALSE, probe |-> FALSE, spawn1 |-> FALSE,
            spawn2 |-> FALSE, open |-> FALSE]

\* the recorder after AudioRecorder.__init__
RecInit ==
  /\ pc = <<"idle", 0>>
  /\ stream = FALSE
  /\ dual_format_enabled = FALSE
  /\ ffmpeg_process = AllFalse
  /\ frames = 0
  /\ current_filename = -1
  /\ recording_start_datetime = 0
  /\ recording_end_datetime = 0
  /\ logged_write_error = AllFalse
  /\ file_success = AllFalse
  /\ now = 0
  /\ cb = <<"idle", 0>>
  /\ proc = [p \in P |-> "none"]
  /\ reads = AllFalse
  /\ pipeFill = [p \in P |-> 0]
  /\ writeFails = AllFalse
  /\ file = [p \in P |-> -1]
  /\ returncode = [p \in P |-> "none"]
  /\ stdinClosed = AllFalse
  /\ sigterm = AllFalse
  /\ sigkill = AllFalse
  /\ log = [p \in P |-> NoLog]
  /\ startIn = NoStart
  /\ startResult = "none"
  /\ idReused = FALSE
  /\ stopResult = "none"
  /\ hashed = AllFalse
  /\ sizeAtStop = [p \in P |-> -1]
  /\ warned = AllFalse
  /\ handed = {}
  /\ err_output = ""
  /\ logCreatedNoFile = AllFalse
  /\ logCalls = {}
  /\ logUpdated = AllFalse
  /\ errLogs = [p \in P |-> 0]
  /\ failed = AllFalse
  /\ fedDead = [p \in P |-> 0]
  /\ sent = [p \in P |-> <<>>]
  /\ faults = 0

\* the window after __init__: no monitor
MonInit ==
  /\ file_monitor = FALSE
  /\ is_running = FALSE
  /\ mon = "none"
  /\ ui = "idle"
  /\ ticks = 0
  /\ emits = 0
  /\ status = <<FALSE, 0>>
  /\ statError = FALSE
  /\ failedTicks = 0

\* the audio files a report can be asked for
ReportFiles == {1, 2}

\* the window after __init__: nothing queued, no report thread
QueueInit ==
  /\ report_queue = <<>>
  /\ is_report_processing = FALSE
  /\ running = 0
  /\ timers = 0
  /\ dialogs = <<>>
  /\ present = ReportFiles
  /\ requests = 0
  /\ accepted = <<>>
  /\ started = <<>>
  /\ handled = 0
  /\ rejected = 0

Init ==
  /\ RecInit
  /\ config = NoConfig
  /\ setup = NoSetup
  /\ MonInit
  /\ QueueInit

\* n more failures fit the bound
Fault(n) ==
  /\ faults + n <= MaxFaults
  /\ faults' = faults + n

NoFault == UNCHANGED faults

\* ------------------------------------------------------------ the clock
\* The program reads the clock on entry to start_recording and to
\* stop_recording only; the time that passed since the last reading is
\* chosen at the reading.
ClockReadings == now..MaxClock

\* time.strftime("%Y%m%d-%H%M%S"): the clock at one-second resolution
Timestamp(t) == t \div TicksPerSec

\* ------------------------------------ start_recording: paths and codecs
\* (format, codec) pairs the combo boxes offer, the codec as
\* codec_full.split(" ")[0], and libfdk_aac, which the combo boxes offered
\* once and start_recording still handles
Selections ==
  {<<"wav", "pcm_s16le">>, <<"wav", "alaw">>, <<"wav", "mulaw">>,
   <<"mp3", "libmp3lame">>, <<"ogg", "libvorbis">>, <<"ogg", "libopus">>,
   <<"flac", "flac">>, <<"m4a", "aac">>, <<"m4a", "libfdk_aac">>}

\* what the full text of a codec entry says after the codec name: the
\* HE-AAC version ("v1" in codec_full, "v2" in codec_full) or nothing
Variants == {"", "v1", "v2"}

\* the entries of the bitrate and of the sample rate combo box that are tried
Bitrates == {"128k", "320k"}
SampleRates == {"8000", "48000"}

\* encoder names that the text of "ffmpeg -encoders" may list
Encoders ==
  {"pcm_s16le", "pcm_alaw", "pcm_mulaw", "libmp3lame", "mp3_mf", "libvorbis",
   "vorbis", "libopus", "opus", "flac", "aac", "libfdk_aac"}

\* the encoder names that contain the text c
NamesWith(c) ==
  IF c = "mp3" THEN {"mp3_mf", "libmp3lame"}
  ELSE IF c = "vorbis" THEN {"vorbis", "libvorbis"}
  ELSE IF c = "opus" THEN {"opus", "libopus"}
  ELSE IF c = "aac" THEN {"aac", "libfdk_aac"}
  ELSE IF c \in Encoders THEN {c}
  ELSE {}

\* "c in codec_output": substring search in the text of the encoder list
InOutput(c, out) == NamesWith(c) \cap out # {}

\* codec_to_check: alaw and mulaw are listed as pcm_alaw and pcm_mulaw
codec_to_check(c) ==
  IF c = "alaw" THEN "pcm_alaw"
  ELSE IF c = "mulaw" THEN "pcm_mulaw"
  ELSE c

\* codec_alternatives.get(c), "" for None
codec_alternatives(c) ==
  IF c = "libmp3lame" THEN "mp3"
  ELSE IF c = "libvorbis" THEN "vorbis"
  ELSE IF c = "libopus" THEN "opus"
  ELSE IF c = "aac" THEN "aac"
  ELSE ""

Companding == {"alaw", "mulaw"}

\* (variant: the secondary file gets no "_2")
SuffixNone(p) == ""

\* the index part of the base name: "" for the primary, "_2" for the secondary
Suffix(p) == IF p = 2 THEN "_2" ELSE ""

\* f"rec_{timestamp}" with the index part
BaseName(id, p) == "rec_" \o ToString(id) \o Suffix(p)

\* self.output_file / self.output_file2 (below output_dir)
OutputFile(id, p, fmt) == BaseName(id, p) \o "." \o fmt

\* self.log_file / self.log_file2 (below output_dir)
LogFile(id, p) == BaseName(id, p) \o "_log.txt"

\* The codec check of target p: the codec used, the "continue anyway?"
\* questions asked (with the codec they name), the warnings and the
\* informations shown.  Only the primary target's check asks the question.
CodecCheck(p, c, in) ==
  LET keep == [codec |-> c, asked |-> <<>>, warnings |-> 0, infos |-> 0]
      alt == codec_alternatives(codec_to_check(c))
  IN
  IF ~in.versionOk \/ ~in.encodersOk THEN keep
  ELSE IF InOutput(codec_to_check(c), in.codec_output) THEN keep
  ELSE IF alt # "" /\ InOutput(alt, in.codec_output)
  THEN IF c \notin Companding
       THEN [keep EXCEPT !.codec = alt, !.infos = 1]
       ELSE keep
  ELSE IF p = 1 /\ c \in Companding
  THEN [keep EXCEPT !.asked = <<c>>,
                    !.codec = IF in.reply = "No" THEN "pcm_s16le" ELSE c]
  ELSE [keep EXCEPT !.warnings = 1]

\* ----------------------------------- start_recording: encoder commands
\* self.channels
channels == 1

\* int(sample_rate)
IntOf(text) == IF text = "8000" THEN 8000 ELSE IF text = "48000" THEN 48000 ELSE 0

\* the arguments every command starts with
InputArgs(fs) ==
  <<"ffmpeg", "-y", "-f", "s16le", "-ar", ToString(fs), "-ac",
    ToString(channels), "-i", "pipe:0">>

\* the command of the primary target; variant stands for the tests
\* "v1" in codec_full and "v2" in codec_full
command(fmt, codec, variant, bitrate, fs, output_file) ==
  LET opts ==
        IF fmt = "wav"
        THEN IF codec = "alaw" THEN <<"-c:a", "pcm_alaw">>
             ELSE IF codec = "mulaw" THEN <<"-c:a", "pcm_mulaw">>
             ELSE <<"-c:a", codec>>
        ELSE IF fmt = "mp3" THEN <<"-c:a", codec, "-b:a", bitrate>>
        ELSE IF fmt = "ogg"
        THEN IF codec = "libvorbis" THEN <<"-c:a", codec, "-q:a", "4">>
             ELSE <<"-c:a", codec, "-b:a", bitrate>>
        ELSE IF fmt = "flac" THEN <<"-c:a", codec, "-compression_level", "8">>
        ELSE IF fmt = "m4a"
        THEN IF codec = "libfdk_aac"
             THEN IF variant = "v1"
                  THEN <<"-c:a", codec, "-profile:a", "aac_he", "-b:a", bitrate>>
                  ELSE IF variant = "v2"
                  THEN <<"-c:a", codec, "-profile:a", "aac_he_v2", "-b:a",
                         bitrate>>
                  ELSE <<"-c:a", codec, "-b:a", bitrate>>
             ELSE <<"-c:a", codec, "-b:a", bitrate, "-strict", "experimental">>
        ELSE <<>>
  IN InputArgs(fs) \o opts \o <<output_file>>

\* (variant: the copy for the second target lost the Vorbis quality branch)
command2_NoQuality(fmt2, codec2, variant2, bitrate2, fs, output_file2) ==
  IF fmt2 = "ogg"
  THEN InputArgs(fs) \o <<"-c:a", codec2, "-b:a", bitrate2>> \o <<output_file2>>
  ELSE command(fmt2, codec2, variant2, bitrate2, fs, output_file2)

\* the command of the secondary target: the second copy of the same code
command2(fmt2, codec2, variant2, bitrate2, fs, output_file2) ==
  LET opts ==
        IF fmt2 = "wav"
        THEN IF codec2 = "alaw" THEN <<"-c:a", "pcm_alaw">>
             ELSE IF codec2 = "mulaw" THEN <<"-c:a", "pcm_mulaw">>
             ELSE <<"-c:a", codec2>>
        ELSE IF fmt2 = "mp3" THEN <<"-c:a", codec2, "-b:a", bitrate2>>
        ELSE IF fmt2 = "ogg"
        THEN IF codec2 = "libvorbis" THEN <<"-c:a", codec2, "-q:a", "4">>
             ELSE <<"-c:a", codec2, "-b:a", bitrate2>>
        ELSE IF fmt2 = "flac" THEN <<"-c:a", codec2, "-compression_level", "8">>
        ELSE IF fmt2 = "m4a"
        THEN IF codec2 = "libfdk_aac"
             THEN IF variant2 = "v1"
                  THEN <<"-c:a", codec2, "-profile:a", "aac_he", "-b:a",
                         bitrate2>>
                  ELSE IF variant2 = "v2"
                  THEN <<"-c:a", codec2, "-profile:a", "aac_he_v2", "-b:a",
                         bitrate2>>
                  ELSE <<"-c:a", codec2, "-b:a", bitrate2>>
             ELSE <<"-c:a", codec2, "-b:a", bitrate2, "-strict", "experimental">>
        ELSE <<>>
  IN InputArgs(fs) \o opts \o <<output_file2>>

\* ---------------------------------------------------------- utils.py
\* calculate_file_hash: SHA-256 of the content, or the "File not found" text
calculate_file_hash(p, size) ==
  IF size < 0 THEN FileNotFound ELSE <<"sha256", p, size>>

\* strftime("%Y-%m-%d %H:%M:%S.%f")[:-3]: the time truncated to milliseconds
FormatMs(t) == t \div TicksPerMs

\* strptime(s, "%Y-%m-%d %H:%M:%S.%f"): the time a millisecond string denotes
ParseMs(s) == s * TicksPerMs

\* create_recording_log with end_time=None: the text written to the log
create_recording_log(p, size, start) ==
  [exists   |-> TRUE,
   hash     |-> IF size >= 0 THEN calculate_file_hash(p, size) ELSE FileNotFound,
   size     |-> IF size >= 0 THEN size ELSE SizeNA,
   start    |-> FormatMs(start),
   endTime  |-> InProgress,
   duration |-> InProgress]

\* (variant: a missing log is written all the same)
LogExistsUnchecked(l) == TRUE

\* "if not os.path.exists(log_file_path): return False"
LogExists(l) == l.exists

\* (variant: the hash placeholder is not replaced)
update_recording_log_KeepsHash(l, size, endT, h) ==
  IF ~LogExists(l) THEN l ELSE
  [exists   |-> TRUE,
   hash     |-> l.hash,
   size     |-> IF size >= 0 THEN size ELSE l.size,
   start    |-> l.start,
   endTime  |-> IF l.endTime = InProgress THEN FormatMs(endT) ELSE l.endTime,
   duration |-> IF l.duration = InProgress
                THEN FormatMs(endT - ParseMs(l.start)) ELSE l.duration]

\* update_recording_log with end_time and file_hash given: nothing when the
\* log is missing, else str.replace of each placeholder that is still in
\* the text
update_recording_log(l, size, endT, h) ==
  IF ~LogExists(l) THEN l ELSE
  [exists   |-> TRUE,
   hash     |-> IF l.hash = FileNotFound THEN h ELSE l.hash,
   size     |-> IF size >= 0 THEN size ELSE l.size,
   start    |-> l.start,
   endTime  |-> IF l.endTime = InProgress THEN FormatMs(endT) ELSE l.endTime,
   duration |-> IF l.duration = InProgress
                THEN FormatMs(endT - ParseMs(l.start)) ELSE l.duration]

\* ------------------------------------------------- start_recording
\* What each call of start_recording would return in this environment
StartInputs ==
  {in \in [dual : BOOLEAN,      \* format_sel2 and codec_sel2 are given
           probe : BOOLEAN,     \* "ffmpeg -version" succeeds
           spawn1 : BOOLEAN,    \* Popen(command) succeeds
           spawn2 : BOOLEAN,    \* Popen(command2) succeeds
           open : BOOLEAN] :    \* self.audio.open succeeds
     ~in.dual => in.spawn2}     \* there is no command2 to fail

\* the calls that fail in this environment
FailedCalls(in) ==
  Cardinality({c \in {"probe", "spawn1", "spawn2", "open"} : ~in[c]})

\* When a spawned encoder opens (and truncates) its output file: before the
\* initial log is written, after it, or never (it fails first)
Startups == {"before", "after", "never"}

Targets(d) == IF d THEN {1, 2} ELSE {1}

\* the Popen calls that are executed and succeed
Spawned(in) ==
  IF ~in.probe \/ ~in.spawn1 THEN {}
  ELSE IF in.dual /\ in.spawn2 THEN {1, 2}
  ELSE {1}

\* (variant: the result of the availability probe is ignored)
StartSucceedsNoProbe(in) ==
  /\ in.spawn1
  /\ in.dual => in.spawn2
  /\ in.open

\* the try block reaches "return True"
StartSucceeds(in) ==
  /\ in.probe
  /\ in.spawn1
  /\ in.dual => in.spawn2
  /\ in.open

\* (variant: only the first encoder is cleaned up)
StartCleanupFirstOnly(in) ==
  IF StartSucceeds(in) THEN {}
  ELSE {p \in Spawned(in) : p = 1}

\* the except block: the handles it terminates and clears
StartCleanup(in) ==
  IF StartSucceeds(in) THEN {}
  ELSE {p \in Spawned(in) : p = 1 \/ in.dual}

start_recording ==
  /\ UNCHANGED sideVars
  /\ pc = <<"idle", 0>>
  /\ ~stream
  /\ \E in \in StartInputs, t \in ClockReadings :
     /\ faults + FailedCalls(in)
          + (IF Timestamp(t) = current_filename THEN 1 ELSE 0) <= MaxFaults
     /\ \E startup \in [P -> Startups], logOk \in SUBSET P :
       LET id == Timestamp(t)
           ok == StartSucceeds(in)
           sp == IF ok THEN Spawned(in) ELSE {}
           sameId == id = current_filename
           oldFile == IF sameId THEN file ELSE [p \in P |-> -1]
           oldLog == IF sameId THEN log ELSE [p \in P |-> NoLog]
           seen == [p \in P |-> IF p \in sp /\ startup[p] = "before"
                                THEN 0 ELSE oldFile[p]]
           written == IF ok THEN Targets(in.dual) \cap logOk ELSE {}
       IN
       /\ \A p \in P \ sp : startup[p] = "after"
       /\ logOk \subseteq (IF ok THEN Targets(in.dual) ELSE {})
       /\ Fault(FailedCalls(in)
                + (IF sameId THEN 1 ELSE 0)
                + Cardinality({p \in sp : startup[p] = "never"})
                + Cardinality((IF ok THEN Targets(in.dual) ELSE {}) \ logOk))
       /\ now' = t
       /\ dual_format_enabled' = in.dual
       /\ current_filename' = id
       /\ idReused' = sameId
       /\ recording_start_datetime' = t
       /\ stream' = ok
       /\ ffmpeg_process' = [p \in P |-> IF p \in StartCleanup(in) THEN FALSE
                                         ELSE IF p \in Spawned(in) THEN TRUE
                                         ELSE ffmpeg_process[p]]
       /\ proc' = [p \in P |-> IF p \in sp THEN "running" ELSE "none"]
       /\ reads' = [p \in P |-> p \in sp /\ startup[p] # "never"]
       /\ file' = [p \in P |-> IF p \in sp /\ startup[p] # "never"
                               THEN 0 ELSE oldFile[p]]
       /\ returncode' = [p \in P |-> "none"]
       /\ sigterm' = [p \in P |-> p \in StartCleanup(in)]
       /\ log' = [p \in P |-> IF p \in written
                              THEN create_recording_log(p, seen[p], t)
                              ELSE oldLog[p]]
       /\ logCreatedNoFile' = [p \in P |-> p \in written /\ seen[p] < 0]
       /\ logCalls' = IF ok THEN Targets(in.dual) ELSE {}
       /\ logUpdated' = AllFalse
       /\ startIn' = in
       /\ startResult' = IF ok THEN "ok" ELSE "fail"
  /\ frames' = 0
  /\ pipeFill' = [p \in P |-> 0]
  /\ writeFails' = AllFalse
  /\ stdinClosed' = AllFalse
  /\ sigkill' = AllFalse
  /\ stopResult' = "none"
  /\ hashed' = AllFalse
  /\ sizeAtStop' = [p \in P |-> -1]
  /\ warned' = AllFalse
  /\ handed' = {}
  /\ err_output' = ""
  /\ file_success' = AllFalse
  /\ errLogs' = [p \in P |-> 0]
  /\ failed' = AllFalse
  /\ fedDead' = [p \in P |-> 0]
  /\ sent' = [p \in P |-> <<>>]
  /\ UNCHANGED <<pc, cb, recording_end_datetime, logged_write_error>>

\* --------------------------------------------------- audio_callback
\* (variant: the callback returns after the first pipe)
AfterWriteReturns(p) == <<"idle", 0>>

\* the position after the write to pipe p
AfterWrite(p) == IF p = 1 THEN <<"w", 2>> ELSE <<"idle", 0>>

\* the exceptions a write to the pipe raises
WriteErrors == {"BrokenPipeError", "OSError"}

\* (variant: only a broken pipe is caught)
SwallowedBrokenPipeOnly(e) == e = "BrokenPipeError"

\* "except BrokenPipeError: pass", "except Exception as e:" and the outer
\* "except Exception: pass": every write error stays inside the callback
Swallowed(e) == e = "BrokenPipeError" \/ e \in WriteErrors

\* (variant: a write error ends the callback, as with one try block around
\* both writes)
AfterFailureReturns(p) == <<"idle", 0>>

\* the position after a write to pipe p that raised: each write has a try
\* block of its own, so the callback goes on as after a write that returned
AfterFailure(p) == AfterWrite(p)

\* (variant: every write error is reported)
ShouldLogAlways(p) == TRUE

\* "if not hasattr(self, '_logged_write_errorN')"
ShouldLog(p) == ~logged_write_error[p]

\* "if self.ffmpeg_process" / "if self.dual_format_enabled and self.ffmpeg_process2"
HasPipe(p) == (p = 1 \/ dual_format_enabled) /\ ffmpeg_process[p]

\* the buffer the running callback was called with: the one appended last
in_data == frames

\* PortAudio delivers a buffer: self.frames.append(in_data)
CallbackBegin ==
  /\ UNCHANGED sideVars
  /\ NoFault
  /\ stream
  /\ cb = <<"idle", 0>>
  /\ frames < MaxBuffers
  /\ frames' = frames + 1
  /\ cb' = <<"w", 1>>
  /\ UNCHANGED <<pc, uiVars, envVars, sigVars, logVars, histVars,
                 logged_write_error, errLogs, failed, fedDead, sent>>

\* no process handle, or (second pipe) not a dual session: nothing is written
CallbackSkip(p) ==
  /\ UNCHANGED sideVars
  /\ NoFault
  /\ cb = <<"w", p>>
  /\ ~HasPipe(p)
  /\ cb' = AfterWrite(p)
  /\ UNCHANGED <<pc, uiVars, envVars, sigVars, logVars, histVars,
                 frames, logged_write_error, errLogs, failed, fedDead,
                 sent>>

\* poll() finds the encoder exited: nothing is written
CallbackDead(p) ==
  /\ UNCHANGED sideVars
  /\ NoFault
  /\ cb = <<"w", p>>
  /\ HasPipe(p)
  /\ proc[p] = "exited"
  /\ fedDead' = [fedDead EXCEPT ![p] = @ + 1]
  /\ cb' = AfterWrite(p)
  /\ UNCHANGED <<pc, uiVars, envVars, sigVars, logVars, histVars,
                 frames, logged_write_error, errLogs, failed, sent>>

\* stdin.write(in_data) returns: the pipe had room
CallbackWrite(p) ==
  /\ UNCHANGED sideVars
  /\ NoFault
  /\ cb = <<"w", p>>
  /\ HasPipe(p)
  /\ proc[p] = "running"
  /\ ~writeFails[p]
  /\ pipeFill[p] < PipeCap
  /\ pipeFill' = [pipeFill EXCEPT ![p] = @ + 1]
  /\ sent' = [sent EXCEPT ![p] = Append(@, in_data)]
  /\ cb' = AfterWrite(p)
  /\ UNCHANGED <<pc, uiVars, proc, reads, writeFails, file, returncode,
                 sigVars, logVars, histVars, frames, logged_write_error,
                 errLogs, failed, fedDead>>

\* stdin.write raises an exception that is not BrokenPipeError
CallbackWriteError(p) ==
  /\ UNCHANGED sideVars
  /\ NoFault
  /\ cb = <<"w", p>>
  /\ HasPipe(p)
  /\ proc[p] = "running"
  /\ writeFails[p]
  /\ IF Swallowed("OSError")
     THEN /\ logged_write_error' = [logged_write_error EXCEPT ![p] = TRUE]
          /\ errLogs' = [errLogs EXCEPT ![p] = IF ShouldLog(p) THEN @ + 1 ELSE @]
          /\ failed' = [failed EXCEPT ![p] = TRUE]
          /\ cb' = AfterFailure(p)
     ELSE /\ cb' = <<"raised", p>>
          /\ UNCHANGED <<logged_write_error, errLogs, failed>>
  /\ UNCHANGED <<pc, uiVars, envVars, sigVars, logVars, histVars,
                 frames, fedDead, sent>>

\* stdin.write blocks: the pipe is full
CallbackBlock(p) ==
  /\ UNCHANGED sideVars
  /\ NoFault
  /\ cb = <<"w", p>>
  /\ HasPipe(p)
  /\ proc[p] = "running"
  /\ ~writeFails[p]
  /\ pipeFill[p] = PipeCap
  /\ cb' = <<"b", p>>
  /\ UNCHANGED <<pc, uiVars, envVars, sigVars, logVars, histVars,
                 frames, logged_write_error, errLogs, failed, fedDead,
                 sent>>

\* the blocked write returns: the encoder made room, or it died and the
\* write raises BrokenPipeError, which is swallowed
CallbackUnblock(p) ==
  /\ UNCHANGED sideVars
  /\ NoFault
  /\ cb = <<"b", p>>
  /\ \/ /\ proc[p] = "running"
        /\ pipeFill[p] < PipeCap
        /\ pipeFill' = [pipeFill EXCEPT ![p] = @ + 1]
        /\ sent' = [sent EXCEPT ![p] = Append(@, in_data)]
        /\ cb' = AfterWrite(p)
     \/ /\ proc[p] # "running"
        /\ UNCHANGED <<pipeFill, sent>>
        /\ cb' = IF Swallowed("BrokenPipeError") THEN AfterFailure(p)
                 ELSE <<"raised", p>>
  /\ UNCHANGED <<pc, uiVars, proc, reads, writeFails, file, returncode,
                 sigVars, logVars, histVars, frames, logged_write_error,
                 errLogs, failed, fedDead>>

\* ------------------------------------------- the encoder processes
\* the encoder reads one buffer from stdin and appends it to its output
EncoderConsume(p) ==
  /\ UNCHANGED sideVars
  /\ NoFault
  /\ proc[p] = "running"
  /\ reads[p]
  /\ pipeFill[p] > 0
  /\ pipeFill' = [pipeFill EXCEPT ![p] = @ - 1]
  /\ file' = [file EXCEPT ![p] = @ + 1]
  /\ UNCHANGED <<pc, uiVars, cbVars, proc, reads, writeFails, returncode,
                 sigVars, logVars, histVars>>

\* the encoder hangs: it stops reading its input and does not exit
EncoderHang(p) ==
  /\ UNCHANGED sideVars
  /\ Fault(1)
  /\ proc[p] = "running"
  /\ reads[p]
  /\ reads' = [reads EXCEPT ![p] = FALSE]
  /\ UNCHANGED <<pc, uiVars, cbVars, proc, pipeFill, writeFails, file,
                 returncode, sigVars, logVars, histVars>>

\* the stdin pipe of the encoder goes bad: from now on a write raises an
\* OSError that is not a BrokenPipeError.  On a target whose pipe went bad
\* in an earlier session the same trouble is not counted again.
PipeFails(p) ==
  /\ UNCHANGED sideVars
  /\ IF logged_write_error[p] THEN NoFault ELSE Fault(1)
  /\ proc[p] = "running"
  /\ ~writeFails[p]
  /\ writeFails' = [writeFails EXCEPT ![p] = TRUE]
  /\ UNCHANGED <<pc, uiVars, cbVars, proc, reads, pipeFill, file, returncode,
                 sigVars, logVars, histVars>>

\* the encoder exits: end of input, an encoding error, a crash or a signal;
\* its end of the pipe goes with it.  A signal gives a non-zero status; an
\* exit that was not asked for, an exit that leaves input unread, or a
\* non-zero status after the end of input, is an unusual event
EncoderExit(p) ==
  /\ UNCHANGED sideVars
  /\ proc[p] = "running"
  /\ \E rc \in {"zero", "nonzero"} :
       /\ sigterm[p] => rc = "nonzero"
       /\ IF sigterm[p] \/ (stdinClosed[p] /\ rc = "zero" /\ pipeFill[p] = 0)
          THEN NoFault ELSE Fault(1)
       /\ returncode' = [returncode EXCEPT ![p] = rc]
  /\ proc' = [proc EXCEPT ![p] = "exited"]
  /\ reads' = [reads EXCEPT ![p] = FALSE]
  /\ pipeFill' = [pipeFill EXCEPT ![p] = 0]
  /\ writeFails' = [writeFails EXCEPT ![p] = FALSE]
  /\ UNCHANGED <<pc, uiVars, cbVars, file, sigVars, logVars, histVars>>

\* ---------------------------------------------------- stop_recording
\* the position after the teardown of pipe p
AfterPipe(p) == IF p = 1 THEN <<"close", 2>> ELSE <<"validate", 0>>

\* (variant: an empty file counts as valid)
IsValidExists(p) == file[p] >= 0

\* os.path.exists(f) and os.path.getsize(f) > 0
IsValid(p) == file[p] >= 0 /\ file[p] > 0

\* (variant: both files must be valid)
StopSuccessBoth(v) == v[1] /\ v[2]

\* "if first_file_success: return True"
StopSuccess(v) == v[1]

\* entry: recording_end_datetime = datetime.datetime.now()
StopBegin ==
  /\ UNCHANGED sideVars
  /\ NoFault
  /\ pc = <<"idle", 0>>
  /\ stream
  /\ \E t \in ClockReadings :
       /\ now' = t
       /\ recording_end_datetime' = t
  /\ pc' = <<"stop_stream", 0>>
  /\ stopResult' = "none"
  /\ hashed' = AllFalse
  /\ sizeAtStop' = [p \in P |-> -1]
  /\ warned' = AllFalse
  /\ handed' = {}
  /\ err_output' = ""
  /\ file_success' = AllFalse
  /\ UNCHANGED <<stream, dual_format_enabled, ffmpeg_process, current_filename,
                 recording_start_datetime, cbVars, envVars, sigVars, logVars,
                 startIn, startResult, idReused>>

\* (variant: the pipes are closed while the stream is still open)
StopStreamLeavesOpen ==
  /\ UNCHANGED sideVars
  /\ NoFault
  /\ pc = <<"stop_stream", 0>>
  /\ pc' = <<"close", 1>>
  /\ UNCHANGED <<uiVars, cbVars, envVars, sigVars, logVars, histVars>>

\* stream.stop_stream(); stream.close(); self.stream = None.  Pa_StopStream
\* returns once the callback in progress has returned.
StopStream ==
  /\ UNCHANGED sideVars
  /\ NoFault
  /\ pc = <<"stop_stream", 0>>
  /\ cb = <<"idle", 0>>
  /\ stream' = FALSE
  /\ pc' = <<"close", 1>>
  /\ UNCHANGED <<dual_format_enabled, ffmpeg_process, current_filename,
                 recording_start_datetime, recording_end_datetime, file_success,
                 now, cbVars, envVars, sigVars, logVars, histVars>>

\* stop_stream() or close() raises: the outer handler returns False
StopStreamRaises ==
  /\ UNCHANGED sideVars
  /\ Fault(1)
  /\ pc = <<"stop_stream", 0>>
  /\ pc' = <<"idle", 0>>
  /\ stopResult' = "exception"
  /\ UNCHANGED <<uiVars, cbVars, envVars, sigVars, logVars, startIn,
                 startResult, idReused, hashed, sizeAtStop, warned, handed,
                 err_output>>

\* "if self.ffmpeg_process:" is false (for pipe 2: or the session is not dual)
SkipPipe(p) ==
  /\ UNCHANGED sideVars
  /\ NoFault
  /\ pc = <<"close", p>>
  /\ ~HasPipe(p)
  /\ pc' = AfterPipe(p)
  /\ UNCHANGED <<uiVars, cbVars, envVars, sigVars, logVars, histVars>>

\* poll() finds the encoder already exited: the block is skipped
ClosePipeExited(p) ==
  /\ UNCHANGED sideVars
  /\ NoFault
  /\ pc = <<"close", p>>
  /\ HasPipe(p)
  /\ proc[p] = "exited"
  /\ ffmpeg_process' = [ffmpeg_process EXCEPT ![p] = FALSE]
  /\ pc' = AfterPipe(p)
  /\ UNCHANGED <<stream, dual_format_enabled, current_filename,
                 recording_start_datetime, recording_end_datetime, file_success,
                 now, cbVars, envVars, sigVars, logVars, histVars>>

\* stdin.close()
ClosePipe(p) ==
  /\ UNCHANGED sideVars
  /\ NoFault
  /\ pc = <<"close", p>>
  /\ HasPipe(p)
  /\ proc[p] = "running"
  /\ stdinClosed' = [stdinClosed EXCEPT ![p] = TRUE]
  /\ pc' = <<"wait", p>>
  /\ UNCHANGED <<uiVars, cbVars, envVars, sigterm, sigkill, logVars, histVars>>

\* wait(timeout=5) returns: the encoder has exited
WaitExited(p) ==
  /\ UNCHANGED sideVars
  /\ NoFault
  /\ pc = <<"wait", p>>
  /\ proc[p] = "exited"
  /\ pc' = <<"check", p>>
  /\ UNCHANGED <<uiVars, cbVars, envVars, sigVars, logVars, histVars>>

\* wait(timeout=5) raises TimeoutExpired: terminate()
WaitTimeout(p) ==
  /\ UNCHANGED sideVars
  /\ NoFault
  /\ pc = <<"wait", p>>
  /\ proc[p] = "running"
  /\ sigterm' = [sigterm EXCEPT ![p] = TRUE]
  /\ pc' = <<"kill", p>>
  /\ UNCHANGED <<uiVars, cbVars, envVars, stdinClosed, sigkill, logVars,
                 histVars>>

\* (variant: kill() is called without looking at the process)
StillAliveUnchecked(p) == TRUE

\* "if self.ffmpeg_process.poll() is None" after the sleep
StillAlive(p) == proc[p] = "running"

\* time.sleep(0.5); "if poll() is None: kill()"; the killed encoder is
\* gone when stderr.read() returns
KillIfAlive(p) ==
  /\ UNCHANGED sideVars
  /\ NoFault
  /\ pc = <<"kill", p>>
  /\ sigkill' = [sigkill EXCEPT ![p] = StillAlive(p)]
  /\ returncode' = [returncode EXCEPT ![p] =
                      IF proc[p] = "running" THEN "nonzero" ELSE @]
  /\ proc' = [proc EXCEPT ![p] = "exited"]
  /\ reads' = [reads EXCEPT ![p] = FALSE]
  /\ pipeFill' = [pipeFill EXCEPT ![p] = 0]
  /\ writeFails' = [writeFails EXCEPT ![p] = FALSE]
  /\ pc' = <<"check", p>>
  /\ UNCHANGED <<uiVars, cbVars, file, stdinClosed, sigterm, logVars, histVars>>

\* "if returncode != 0:" prints the stderr text and, when the text names
\* one of the known errors, shows a warning dialog; then
\* self.ffmpeg_process = None
CheckExit(p) ==
  /\ UNCHANGED sideVars
  /\ NoFault
  /\ pc = <<"check", p>>
  /\ warned' = [warned EXCEPT ![p] = returncode[p] # "zero"]
  /\ ffmpeg_process' = [ffmpeg_process EXCEPT ![p] = FALSE]
  /\ pc' = AfterPipe(p)
  /\ UNCHANGED <<stream, dual_format_enabled, current_filename,
                 recording_start_datetime, recording_end_datetime, file_success,
                 now, cbVars, envVars, sigVars, logVars, startIn, startResult,
                 idReused, stopResult, hashed, sizeAtStop, handed, err_output>>

\* stdin.close(), wait(), terminate() or kill() raises an exception that is
\* not handled inside: "except Exception as e: print(...)", then
\* self.ffmpeg_process = None.  Nothing waited for the encoder.
TeardownRaises(p) ==
  /\ UNCHANGED sideVars
  /\ Fault(1)
  /\ pc = <<"wait", p>>
  /\ proc[p] = "running"
  /\ ffmpeg_process' = [ffmpeg_process EXCEPT ![p] = FALSE]
  /\ pc' = AfterPipe(p)
  /\ UNCHANGED <<stream, dual_format_enabled, current_filename,
                 recording_start_datetime, recording_end_datetime, file_success,
                 now, cbVars, envVars, sigVars, logVars, histVars>>

\* ui_components.stop_recording after a successful stop, when the user asks
\* for a report: queue_report_generation appends each file that exists
ReportTargets(d) == {p \in Targets(d) : file[p] >= 0}

\* "if hasattr(self, 'ffmpeg_process') and self.ffmpeg_process and ...":
\* the stderr text is read through the handle of the primary encoder
ReadStderr == IF ffmpeg_process[1] THEN "stderr" ELSE ""

\* validity of each file, hash and log update of the valid ones, the result
\* (with the error dialog when the primary file is invalid); then the caller
\* in ui_components.stop_recording offers the report
Validate ==
  /\ UNCHANGED sideVars
  /\ pc = <<"validate", 0>>
  /\ \E logOk \in SUBSET P, reply \in BOOLEAN :
       LET v == [p \in P |-> (p = 1 \/ dual_format_enabled) /\ IsValid(p)]
       IN
       /\ \A p \in logOk : v[p] /\ log[p].exists
       /\ ~StopSuccess(v) => ~reply      \* the question is not asked
       /\ Fault(Cardinality({p \in P \ logOk : v[p] /\ log[p].exists}))
       /\ file_success' = v
       /\ hashed' = v
       /\ sizeAtStop' = file
       /\ handed' = IF StopSuccess(v) /\ reply
                    THEN ReportTargets(dual_format_enabled) ELSE {}
       /\ log' = [p \in P |->
                    IF p \in logOk \/ (v[p] /\ ~log[p].exists)
                    THEN update_recording_log(log[p], file[p],
                           recording_end_datetime,
                           calculate_file_hash(p, file[p]))
                    ELSE log[p]]
       /\ logUpdated' = [p \in P |-> p \in logOk]
       /\ stopResult' = IF StopSuccess(v) THEN "ok" ELSE "invalid"
       /\ err_output' = IF StopSuccess(v) THEN "" ELSE ReadStderr
  /\ pc' = <<"idle", 0>>
  /\ UNCHANGED <<stream, dual_format_enabled, ffmpeg_process, current_filename,
                 recording_start_datetime, recording_end_datetime, now, cbVars,
                 envVars, sigVars, logCreatedNoFile, logCalls, startIn,
                 startResult, idReused, warned>>

\* ------------------------------------------- the setup of a recording
\* one target's selection: format, codec and the variant its text names
Choices ==
  UNION {{[fmt |-> sel[1], codec |-> sel[2], variant |-> v] :
            v \in IF sel[2] = "libfdk_aac" THEN Variants ELSE {""}} :
         sel \in Selections}

NoChoice == [fmt |-> "", codec |-> "", variant |-> ""]

\* the encoder names the codec check of codec c looks for
Relevant(c) ==
  NamesWith(codec_to_check(c)) \cup NamesWith(codec_alternatives(codec_to_check(c)))

\* what the two probes answer: "ffmpeg -version" succeeds, "ffmpeg -encoders"
\* succeeds, and the encoders listed, as far as the checks look for them
Probes(names) ==
  {[versionOk |-> FALSE, encodersOk |-> FALSE, codec_output |-> {}],
   [versionOk |-> TRUE, encodersOk |-> FALSE, codec_output |-> {}]}
  \cup {[versionOk |-> TRUE, encodersOk |-> TRUE, codec_output |-> out] :
          out \in SUBSET names}

\* the selections c1 (primary) and c2 (secondary, NoChoice in a single
\* session) with every bitrate, sample rate, probe answer and reply
ConfigsOf(c1, c2) ==
  {[id |-> i, dual |-> c2 # NoChoice,
    fmt |-> <<c1.fmt, c2.fmt>>, codec |-> <<c1.codec, c2.codec>>,
    variant |-> <<c1.variant, c2.variant>>,
    bitrate |-> <<b[1], IF c2 # NoChoice THEN b[2] ELSE "">>,
    sample_rate |-> r,
    versionOk |-> pr.versionOk, encodersOk |-> pr.encodersOk,
    codec_output |-> pr.codec_output,
    reply |-> y] :         \* the answer to "continue anyway?", where asked
     i \in 0..Timestamp(MaxClock),
     b \in {x \in Bitrates \X Bitrates : c2 = NoChoice => x[2] = x[1]},
     r \in SampleRates,
     pr \in Probes(Relevant(c1.codec) \cup Relevant(c2.codec)),
     y \in IF c1.codec \in Companding THEN {"Yes", "No"} ELSE {"No"}}

\* start_recording up to the encoder commands: the paths, then the probe,
\* then the codec check of each target, then the command of each target
Configure ==
  /\ setup = NoSetup
  /\ LET in == config
         T == Targets(in.dual)
         chk == [p \in P |-> CodecCheck(p, in.codec[p], in)]
         out == [p \in P |-> OutputFile(in.id, p, in.fmt[p])]
         fs == IntOf(in.sample_rate)
     IN
       /\ setup' =
            [output_file |-> [p \in P |-> IF p \in T THEN out[p]
                                          ELSE setup.output_file[p]],
             log_file |-> [p \in P |-> IF p \in T THEN LogFile(in.id, p)
                                       ELSE setup.log_file[p]],
             codec |-> [p \in P |-> IF p \in T THEN chk[p].codec ELSE ""],
             asked |-> [p \in P |-> IF p \in T THEN chk[p].asked ELSE <<>>],
             warnings |-> [p \in P |-> IF p \in T THEN chk[p].warnings ELSE 0],
             infos |-> [p \in P |-> IF p \in T THEN chk[p].infos ELSE 0],
             command |->
               <<command(in.fmt[1], chk[1].codec, in.variant[1],
                         in.bitrate[1], fs, out[1]),
                 IF in.dual
                 THEN command2(in.fmt[2], chk[2].codec, in.variant[2],
                               in.bitrate[2], fs, out[2])
                 ELSE setup.command[2]>>]
  /\ UNCHANGED <<recVars, config, monVars, queueVars>>

\* stop_recording: update_recording_log(log, end, calculate_file_hash(file))
\* of target p: the log that is updated and the file that is hashed into it
UpdateCall(p) == <<setup.log_file[p], setup.output_file[p]>>

\* ------------------------------------------------------ specification
Callback ==
  \/ CallbackBegin
  \/ \E p \in P : CallbackSkip(p)
  \/ \E p \in P : CallbackDead(p)
  \/ \E p \in P : CallbackWrite(p)
  \/ \E p \in P : CallbackWriteError(p)
  \/ \E p \in P : CallbackBlock(p)
  \/ \E p \in P : CallbackUnblock(p)

Encoder ==
  \/ \E p \in P : EncoderConsume(p)
  \/ \E p \in P : EncoderHang(p)
  \/ \E p \in P : PipeFails(p)
  \/ \E p \in P : EncoderExit(p)

StopStep ==
  \/ StopStream
  \/ \E p \in P : SkipPipe(p)
  \/ \E p \in P : ClosePipeExited(p)
  \/ \E p \in P : ClosePipe(p)
  \/ \E p \in P : WaitExited(p)
  \/ \E p \in P : WaitTimeout(p)
  \/ \E p \in P : KillIfAlive(p)
  \/ \E p \in P : CheckExit(p)
  \/ Validate

Next ==
  \/ start_recording
  \/ StopBegin
  \/ StopStreamRaises
  \/ \E p \in P : TeardownRaises(p)
  \/ StopStep
  \/ Callback
  \/ Encoder

Spec == Init /\ [][Next]_vars

\* the setup alone, for every selection and every answer of the probes
SetupInit ==
  /\ RecInit
  /\ \E c1 \in Choices, c2 \in Choices \cup {NoChoice} :
       config \in ConfigsOf(c1, c2)
  /\ setup = NoSetup
  /\ MonInit
  /\ QueueInit

SetupSpec == SetupInit /\ [][Configure]_vars

\* ------------------------------------------------- file_monitor.py
\* the sizes, in bytes, the monitored file is seen with; -1 when missing
MonSizes == {-1, 0, 1024, 2600}

\* int(os.path.getsize(filename) / 1024)
SizeKb(bytes) == bytes \div 1024

\* self.file_status.emit(is_recording, file_size_kb)
Emit(is_recording, file_size_kb) ==
  /\ emits' = emits + 1
  /\ status' = <<is_recording, file_size_kb>>

\* the encoder writes to the monitored file, or something removes or
\* replaces it
FileChanges ==
  /\ \E s \in MonSizes :
       /\ s # file[1]
       /\ file' = [file EXCEPT ![1] = s]
  /\ UNCHANGED <<pc, uiVars, cbVars, proc, reads, pipeFill, writeFails,
                 returncode, sigVars, logVars, histVars, faults, sideVars>>

\* the window's start handler after recorder.start_recording returned:
\* the monitor of the primary file is created and started
StartMonitor ==
  /\ ui = "idle"
  /\ pc = <<"idle", 0>>
  /\ startResult = "ok" \/ stream
  /\ file_monitor' = TRUE
  /\ is_running' = TRUE
  /\ mon' = "top"
  /\ ui' = "recording"
  /\ UNCHANGED <<ticks, emits, status, statError, failedTicks>>
  /\ UNCHANGED <<recVars, cfgVars, queueVars>>

\* "while self.is_running"
MonLoop ==
  /\ mon = "top"
  /\ IF is_running
     THEN /\ ticks < MaxTicks
          /\ mon' = "exists"
          /\ ticks' = ticks + 1
     ELSE /\ mon' = "finished"
          /\ ticks' = ticks
  /\ UNCHANGED <<file_monitor, is_running, ui, emits, status, statError,
                 failedTicks>>
  /\ UNCHANGED <<recVars, cfgVars, queueVars>>

\* "if os.path.exists(self.filename)" and the else branch
MonExists ==
  /\ mon = "exists"
  /\ IF file[1] >= 0
     THEN /\ mon' = "getsize"
          /\ UNCHANGED <<emits, status, failedTicks>>
     ELSE /\ Emit(FALSE, 0)
          /\ failedTicks' = failedTicks + 1
          /\ mon' = "sleep"
  /\ UNCHANGED <<file_monitor, is_running, ui, ticks, statError>>
  /\ UNCHANGED <<recVars, cfgVars, queueVars>>

\* os.path.getsize and the emit after it, or "except Exception": the call
\* raises when the file is gone by now, and may raise for other reasons
MonGetsize ==
  /\ mon = "getsize"
  /\ \E raises \in BOOLEAN :
       /\ file[1] < 0 => raises
       /\ statError' = raises
       /\ IF raises
          THEN /\ Emit(FALSE, 0)
               /\ failedTicks' = failedTicks + 1
          ELSE /\ Emit(TRUE, SizeKb(file[1]))
               /\ failedTicks' = failedTicks
  /\ mon' = "sleep"
  /\ UNCHANGED <<file_monitor, is_running, ui, ticks>>
  /\ UNCHANGED <<recVars, cfgVars, queueVars>>

\* time.sleep(0.2)
MonSleep ==
  /\ mon = "sleep"
  /\ mon' = "top"
  /\ UNCHANGED <<file_monitor, is_running, ui, ticks, emits, status,
                 statError, failedTicks>>
  /\ UNCHANGED <<recVars, cfgVars, queueVars>>

\* the window's stop handler: file_monitor.stop()
StopMonitor ==
  /\ ui = "recording"
  /\ file_monitor
  /\ is_running' = FALSE
  /\ ui' = "wait"
  /\ UNCHANGED <<file_monitor, mon, ticks, emits, status, statError,
                 failedTicks>>
  /\ UNCHANGED <<recVars, cfgVars, queueVars>>

\* (variant: wait() returns at once)
ThreadFinishedUnchecked == TRUE

\* QThread.wait() returns when run() has returned
ThreadFinished == mon = "finished"

\* file_monitor.wait() returns; self.file_monitor = None
JoinMonitor ==
  /\ ui = "wait"
  /\ ThreadFinished
  /\ file_monitor' = FALSE
  /\ ui' = "stopped"
  /\ UNCHANGED <<is_running, mon, ticks, emits, status, statError,
                 failedTicks>>
  /\ UNCHANGED <<recVars, cfgVars, queueVars>>

MonitorNext ==
  \/ start_recording
  \/ StartMonitor
  \/ FileChanges
  \/ MonLoop
  \/ MonExists
  \/ MonGetsize
  \/ MonSleep
  \/ StopMonitor
  \/ JoinMonitor

\* one recording session of the window with its file monitor
MonitorSpec == Init /\ [][MonitorNext]_vars

\* ------------------------------------- ui_components.py: report queue
\* report generations begun and not yet handled: a running thread or an
\* open rejection dialog
InFlight == running + Len(dialogs)

\* process_report_queue and start_report_generation, called with the queue
\* q while the files pres exist: the first file is taken up, and either its
\* thread is started or the rejection dialog opens
process_report_queue(q, pres) ==
  /\ report_queue' = q
  /\ IF q = <<>>
     THEN /\ is_report_processing' = FALSE
          /\ UNCHANGED <<running, dialogs, started, rejected>>
     ELSE /\ is_report_processing' = TRUE
          /\ started' = Append(started, q[1])
          /\ IF q[1] \in pres
             THEN /\ running' = running + 1
                  /\ UNCHANGED <<dialogs, rejected>>
             ELSE /\ dialogs' = Append(dialogs, q[1])
                  /\ rejected' = rejected + 1
                  /\ UNCHANGED running

\* handle_report_finished: the first file leaves the queue; a timer for the
\* next one, or the flag is cleared
handle_report_finished ==
  LET q == IF report_queue # <<>> THEN Tail(report_queue) ELSE report_queue
  IN /\ report_queue' = q
     /\ handled' = handled + 1
     /\ IF q # <<>>
        THEN /\ timers' = timers + 1
             /\ UNCHANGED is_report_processing
        ELSE /\ is_report_processing' = FALSE
             /\ UNCHANGED timers

\* (variant: a request starts processing whatever the flag says)
ShouldProcessAlways == TRUE

\* "if not self.is_report_processing"
ShouldProcess == ~is_report_processing

\* queue_report_generation(f), from the stop handler or the file dialog,
\* neither of which runs while a modal dialog is open.  The file may
\* vanish between the test here and the test in start_report_generation.
queue_report_generation(f) ==
  /\ dialogs = <<>>
  /\ requests < MaxRequests
  /\ requests' = requests + 1
  /\ IF f \in present
     THEN \E pres \in {present, present \ {f}} :
            /\ present' = pres
            /\ accepted' = Append(accepted, f)
            /\ IF ShouldProcess
               THEN process_report_queue(Append(report_queue, f), pres)
               ELSE /\ report_queue' = Append(report_queue, f)
                    /\ UNCHANGED <<is_report_processing, running, dialogs,
                                   started, rejected>>
     ELSE UNCHANGED <<present, accepted, report_queue, is_report_processing,
                      running, dialogs, started, rejected>>
  /\ UNCHANGED <<timers, handled>>
  /\ UNCHANGED <<recVars, cfgVars, monVars>>

\* the single-shot timer fires, also inside the event loop of a dialog
TimerFires ==
  /\ timers > 0
  /\ timers' = timers - 1
  /\ process_report_queue(report_queue, present)
  /\ UNCHANGED <<present, requests, accepted, handled>>
  /\ UNCHANGED <<recVars, cfgVars, monVars>>

\* a report thread ends, with or without success, and its one
\* report_finished signal reaches the window
ReportFinished ==
  /\ running > 0
  /\ running' = running - 1
  /\ handle_report_finished
  /\ UNCHANGED <<dialogs, present, requests, accepted, started, rejected>>
  /\ UNCHANGED <<recVars, cfgVars, monVars>>

\* the innermost rejection dialog is closed and start_report_generation
\* goes on: handle_report_finished(False, "Invalid file")
DialogClosed ==
  /\ dialogs # <<>>
  /\ dialogs' = SubSeq(dialogs, 1, Len(dialogs) - 1)
  /\ handle_report_finished
  /\ UNCHANGED <<running, present, requests, accepted, started, rejected>>
  /\ UNCHANGED <<recVars, cfgVars, monVars>>

\* an audio file is removed
FileVanishes(f) ==
  /\ f \in present
  /\ present' = present \ {f}
  /\ UNCHANGED <<report_queue, is_report_processing, running, timers,
                 dialogs, requests, accepted, started, handled, rejected>>
  /\ UNCHANGED <<recVars, cfgVars, monVars>>

QueueNext ==
  \/ \E f \in ReportFiles : queue_report_generation(f)
  \/ TimerFires
  \/ ReportFinished
  \/ DialogClosed
  \/ \E f \in ReportFiles : FileVanishes(f)

\* the window's report queue alone
QueueSpec == Init /\ [][QueueNext]_vars

\* Scheduling: the UI thread, once inside stop_recording, keeps running; the
\* callback thread keeps running; an encoder that has not hung keeps reading.
\* Nothing forces an encoder to exit, a stop to be requested or an error.
FairSpec ==
  /\ Spec
  /\ WF_vars(StopStep)
  /\ WF_vars(\E p \in P : \/ CallbackSkip(p) \/ CallbackDead(p)
                          \/ CallbackWrite(p) \/ CallbackWriteError(p)
                          \/ CallbackBlock(p) \/ CallbackUnblock(p))
  /\ WF_vars(\E p \in P : EncoderConsume(p))

\* ------------------------------------------------------------- claims
Idle == pc = <<"idle", 0>>

StopFinished == Idle /\ stopResult \in {"ok", "invalid"}

\* C1: stop_recording returns True exactly when the teardown ran to its end
\* and the primary file then exists with size > 0; the state of the
\* secondary file plays no part in the result.
C1_StopResultIsPrimaryValidity ==
  (Idle /\ stopResult # "none") =>
    ((stopResult = "ok") = (stopResult # "exception" /\ sizeAtStop[1] > 0))

\* a dual session stopped with success although the secondary file is invalid
C1_Witness ==
  /\ StopFinished
  /\ stopResult = "ok"
  /\ dual_format_enabled
  /\ sizeAtStop[2] <= 0

\* C2: in a dual session whose second Popen fails while the probe, the first
\* Popen and the device are fine, start_recording returns True.
C2_PartialFailureStarts ==
  (startIn.dual /\ startIn.probe /\ startIn.spawn1 /\ ~startIn.spawn2
     /\ startIn.open /\ startResult # "none")
    => startResult = "ok"

\* C3: when stop_recording has run to its end, each target of the session is
\* found valid exactly when its file, at the moment stop checks it, exists
\* with size > 0, and its hash was computed exactly in that case.
C3_HashIffValid ==
  StopFinished =>
    \A p \in Targets(dual_format_enabled) :
      /\ file_success[p] = (sizeAtStop[p] > 0)
      /\ hashed[p] = (sizeAtStop[p] > 0)

\* a dual session with one file hashed and the other, empty or missing, not
C3_Witness ==
  /\ StopFinished
  /\ dual_format_enabled
  /\ hashed[1] /\ sizeAtStop[1] > 0
  /\ ~hashed[2] /\ sizeAtStop[2] <= 0

\* C4: whenever stdin.close() is called on an encoder pipe, the capture
\* stream has been stopped and closed in an earlier step.
C4_CaptureClosedBeforePipeClose ==
  [][\A p \in P : (~stdinClosed[p] /\ stdinClosed'[p]) => (~stream /\ ~stream')]_vars

\* both pipes of a dual session had their input closed
C4_Witness ==
  /\ startResult = "ok"
  /\ stdinClosed[1]
  /\ stdinClosed[2]

\* C5: a stop_recording that was entered eventually returns.
C5_StopReturns == (~Idle) ~> Idle

\* C6: when the availability probe fails or the first encoder cannot be
\* spawned, start_recording returns False, the stream stays unset, no buffer
\* is delivered, no log is created and no process handle is kept.
C6_FailedStartStaysIdle ==
  (startResult # "none" /\ (~startIn.probe \/ ~startIn.spawn1)) =>
    /\ startResult = "fail"
    /\ ~stream
    /\ cb = <<"idle", 0>>
    /\ frames = 0
    /\ logCalls = {}
    /\ \A p \in P : ~ffmpeg_process[p]

\* a start whose only encoder could not be spawned
C6_Witness ==
  /\ startResult = "fail"
  /\ startIn.probe
  /\ ~startIn.spawn1
  /\ ~startIn.dual

\* C7: when the device cannot be opened after the encoders were spawned,
\* start_recording returns False, the stream stays unset, every spawned
\* encoder was sent terminate() and its handle is cleared, and no log is
\* written.
C7_DeviceOpenFailureCleansUp ==
  (startResult # "none" /\ startIn.probe /\ startIn.spawn1
     /\ (startIn.dual => startIn.spawn2) /\ ~startIn.open) =>
    /\ startResult = "fail"
    /\ ~stream
    /\ logCalls = {}
    /\ \A p \in Targets(startIn.dual) : sigterm[p] /\ ~ffmpeg_process[p]

\* a dual start that spawned both encoders and then failed to open the device
C7_Witness ==
  /\ startResult = "fail"
  /\ startIn.dual
  /\ startIn.spawn1 /\ startIn.spawn2
  /\ ~startIn.open
  /\ sigterm[1] /\ sigterm[2]

C9_RoundTripNoPlaceholders ==
  \A p \in P :
    (logCreatedNoFile[p] /\ logUpdated[p]) =>
      /\ log[p].exists
      /\ log[p].endTime # InProgress
      /\ log[p].duration # InProgress
      /\ log[p].hash # FileNotFound

\* the primary log was created before the file existed and updated at stop
C9_Witness ==
  /\ logCreatedNoFile[1]
  /\ logUpdated[1]

\* C10: a start never gets the session id of the start before it.
C10_SessionIdsUnique == ~idReused

C12_DecisionOncePerTarget ==
  setup # NoSetup =>
    \A p \in Targets(config.dual) :
      LET c == config.codec[p] IN
      (config.versionOk /\ config.encodersOk /\ config.fmt[p] = "wav"
         /\ c \in Companding) =>
        setup.asked[p] = IF ("pcm_" \o c) \in config.codec_output
                         THEN <<>> ELSE <<c>>

\* C13: once stop_recording has returned, whatever it returned, the stream
\* is unset and no encoder handle is kept.
C13_IdleAfterStop ==
  (Idle /\ stopResult # "none") =>
    /\ ~stream
    /\ \A p \in P : ~ffmpeg_process[p]

\* C14: a dual stop that finds the primary valid and the secondary invalid
\* returns True and reports the failure of the secondary to the user.
C14_SecondaryFailureWarned ==
  (StopFinished /\ dual_format_enabled /\ file_success[1] /\ ~file_success[2])
    => (stopResult = "ok" /\ warned[2])

\* C15: after a stop that ran to its end, each target whose encoder exited
\* with a non-zero status had that status reported, and a non-empty file is
\* valid whatever the status.
C15_NonZeroExitWarned ==
  StopFinished =>
    \A p \in Targets(dual_format_enabled) :
      /\ returncode[p] = "nonzero" => warned[p]
      /\ sizeAtStop[p] > 0 => file_success[p]

\* C16: every file that stop puts on the report queue was found with
\* size > 0, and its encoder is no longer running.
C16_HandedFilesValid ==
  \A p \in handed : sizeAtStop[p] > 0 /\ proc[p] # "running"

\* C17: audio_callback never lets an exception out: whatever the write to a
\* pipe raises, the callback goes on to the next pipe or returns.
C17_CallbackNeverRaises == cb[1] \in {"idle", "w", "b"}

\* a write raised an OSError, it was reported, and the callback returned
C17_Witness ==
  /\ errLogs[1] = 1
  /\ cb = <<"idle", 0>>
  /\ stream

\* a log of the session is missing, or was not updated although the file
\* was found valid
LogFailed ==
  \E p \in Targets(dual_format_enabled) :
    ~log[p].exists \/ (file_success[p] /\ ~logUpdated[p])

\* C18: when a log could not be created or updated, a start whose probe,
\* spawns and device open succeeded still returns True, stop still returns
\* True exactly when the primary file is non-empty, each target is valid
\* exactly when its file is non-empty, and stop creates no log that was
\* missing.
C18_LogFailureHarmless ==
  /\ [](LogFailed =>
          /\ (startResult # "none" /\ startIn.probe /\ startIn.spawn1
                /\ (startIn.dual => startIn.spawn2) /\ startIn.open)
               => startResult = "ok"
          /\ StopFinished =>
               /\ (stopResult = "ok") = (sizeAtStop[1] > 0)
               /\ \A p \in Targets(dual_format_enabled) :
                    file_success[p] = (sizeAtStop[p] > 0))
  /\ [][pc = <<"validate", 0>> =>
          \A p \in P : log'[p].exists = log[p].exists]_vars

\* the primary log could not be created; stop found the file valid, left the
\* log missing and returned True
C18_Witness ==
  /\ StopFinished
  /\ stopResult = "ok"
  /\ startResult = "ok"
  /\ ~log[1].exists

\* C19: after a stop that found a target valid and updated its log, the hash
\* in the log is the hash of the file as stop found it.
C19_LogHashIsFinalHash ==
  StopFinished =>
    \A p \in Targets(dual_format_enabled) :
      (file_success[p] /\ logUpdated[p]) =>
        log[p].hash = <<"sha256", p, sizeAtStop[p]>>

\* C20: no file is hashed while its encoder is still running.
C20_HashedAfterExit ==
  \A p \in P : hashed[p] => proc[p] # "running"

\* C21: within stop_recording terminate() is called on an encoder only from
\* the wait on it, while it has not exited; kill() only after terminate(),
\* from the step after the sleep, on an encoder still alive; an encoder that
\* exits within the wait gets neither call; and an encoder comes to an end
\* only by its own step (end of input, a failure, the terminate signal) or
\* by kill().
C21_EscalationOrder ==
  [][\A p \in P :
       /\ (pc[1] # "idle" /\ ~sigterm[p] /\ sigterm'[p]) =>
            (pc = <<"wait", p>> /\ stdinClosed[p] /\ proc[p] = "running")
       /\ (~sigkill[p] /\ sigkill'[p]) =>
            (pc = <<"kill", p>> /\ sigterm[p] /\ proc[p] = "running")
       /\ (pc = <<"wait", p>> /\ pc' = <<"check", p>>) =>
            (~sigterm'[p] /\ ~sigkill'[p])
       /\ (proc[p] = "running" /\ proc'[p] = "exited") =>
            ((~sigkill[p] /\ sigkill'[p]) \/ pc' = pc)]_vars

\* a dual stop that had to kill the primary encoder while the secondary
\* exited within its wait
C21_Witness ==
  /\ StopFinished
  /\ dual_format_enabled
  /\ sigterm[1] /\ sigkill[1]
  /\ stdinClosed[2] /\ ~sigterm[2] /\ ~sigkill[2]
  /\ proc[2] = "exited" /\ returncode[2] = "zero"
  /\ faults = 0

\* the buffers the capture source delivered in this session, in order
Delivered == [k \in 1..frames |-> k]

IsPrefix(s, t) == Len(s) <= Len(t) /\ SubSeq(t, 1, Len(s)) = s

\* C22: in a dual session, whenever the callback has returned, an encoder
\* that is alive and whose pipe takes writes has been written every buffer
\* delivered so far, whatever happened to the other encoder (exited, broken
\* pipe, write error); this holds for the primary and for the secondary.
C22_SiblingStillFed ==
  \A q \in P :
    (dual_format_enabled /\ cb = <<"idle", 0>> /\ HasPipe(q)
       /\ proc[q] = "running" /\ ~writeFails[q])
      => sent[q] = Delivered

\* the primary encoder exited after the first buffer; the second buffer was
\* still written to the secondary
C22_Witness ==
  /\ dual_format_enabled
  /\ stream
  /\ cb = <<"idle", 0>>
  /\ proc[1] = "exited"
  /\ fedDead[1] >= 1
  /\ proc[2] = "running"
  /\ frames = 2
  /\ sent[2] = <<1, 2>>

\* C23: no write to a pipe returns after stdin.close() was called on it;
\* stdin.close() is called only by stop_recording, at its step for that
\* pipe; and no step of the callback closes a pipe, signals an encoder,
\* clears a handle or moves stop_recording.
C23_NoFeedAfterClose ==
  [][/\ \A p \in P :
          /\ (stdinClosed[p] /\ stdinClosed'[p]) => sent'[p] = sent[p]
          /\ (~stdinClosed[p] /\ stdinClosed'[p]) =>
               (pc = <<"close", p>> /\ cb = <<"idle", 0>>)
     /\ (cb' # cb) =>
          UNCHANGED <<stdinClosed, sigterm, sigkill, ffmpeg_process, pc>>]_vars

\* a pipe that was written two buffers and then closed by a stop that ran
\* to its end
C23_Witness ==
  /\ StopFinished
  /\ stdinClosed[1]
  /\ sent[1] = <<1, 2>>

\* C24: in a dual session, while both encoders are alive and no write has
\* failed, the buffers written to the secondary pipe are a prefix of those
\* written to the primary pipe, which are a prefix of the buffers delivered,
\* in delivery order; the primary is at most one buffer ahead; and when the
\* callback has returned both pipes were written every buffer delivered.
C24_FanOutInOrder ==
  (dual_format_enabled /\ \A p \in P : proc[p] = "running" /\ ~writeFails[p])
    =>
    /\ IsPrefix(sent[2], sent[1])
    /\ IsPrefix(sent[1], Delivered)
    /\ Len(sent[1]) - Len(sent[2]) <= 1
    /\ Len(sent[1]) >= frames - 1
    /\ cb = <<"idle", 0>> => (sent[1] = Delivered /\ sent[2] = Delivered)

\* two buffers were delivered and written to both pipes
C24_Witness ==
  /\ dual_format_enabled
  /\ \A p \in P : proc[p] = "running"
  /\ cb = <<"idle", 0>>
  /\ frames = 2
  /\ sent[1] = <<1, 2>>
  /\ sent[2] = <<1, 2>>

\* C25: in every session, the first and the later ones alike, a pipe whose
\* write raised an error other than a broken pipe has had that error
\* reported exactly once in that session.
C25_ErrorReportedEachSession ==
  \A p \in P : failed[p] => errLogs[p] = 1

\* C26: when stop_recording returns False because the primary file is
\* invalid, and it had the stderr text of the primary encoder (it read and
\* printed it on finding a non-zero exit status), the error dialog shows
\* that text.
C26_DiagnosticHasStderr ==
  (StopFinished /\ stopResult = "invalid" /\ warned[1])
    => err_output = "stderr"

\* the argument a is in the command cmd
HasArg(cmd, a) == \E k \in 1..Len(cmd) : cmd[k] = a

\* the targets of the configured session that are written as ogg
OggTargets == {p \in Targets(config.dual) : config.fmt[p] = "ogg"}

\* C27: for every ogg target of a configured session, a Vorbis encoder (the
\* requested libvorbis, or the alternative taken for it) has the quality
\* option and no bitrate option in its command, and an Opus encoder has the
\* bitrate option and no quality option.
C27_OggOptionsFollowCodec ==
  setup # NoSetup =>
    \A p \in OggTargets :
      /\ setup.codec[p] \in {"libvorbis", "vorbis"} =>
           (HasArg(setup.command[p], "-q:a") /\ ~HasArg(setup.command[p], "-b:a"))
      /\ setup.codec[p] \in {"libopus", "opus"} =>
           (HasArg(setup.command[p], "-b:a") /\ ~HasArg(setup.command[p], "-q:a"))

\* C28: the two command builders are equivalent.  In a configured dual
\* session the command of the secondary target is what the primary builder
\* makes of the secondary target's format, resolved codec, codec variant,
\* bitrate, sample rate and output path, and in every configured session
\* the command of the primary target is what the secondary builder makes of
\* the primary target's.
C28_BuildersEquivalent ==
  setup # NoSetup =>
    /\ config.dual =>
         setup.command[2] =
           command(config.fmt[2], setup.codec[2], config.variant[2],
                   config.bitrate[2], IntOf(config.sample_rate),
                   setup.output_file[2])
    /\ setup.command[1] =
         command2(config.fmt[1], setup.codec[1], config.variant[1],
                  config.bitrate[1], IntOf(config.sample_rate),
                  setup.output_file[1])

\* a dual session whose targets take different branches of the builders:
\* Vorbis by quality for the primary, HE-AAC v1 at 320k for the secondary
C28_Witness ==
  /\ setup # NoSetup
  /\ config.dual
  /\ config.sample_rate = "48000"
  /\ setup.codec = <<"libvorbis", "libfdk_aac">>
  /\ config.variant[2] = "v1"
  /\ config.bitrate = <<"128k", "320k">>
  /\ setup.command[1] =
       <<"ffmpeg", "-y", "-f", "s16le", "-ar", "48000", "-ac", "1", "-i",
         "pipe:0", "-c:a", "libvorbis", "-q:a", "4", setup.output_file[1]>>
  /\ setup.command[2] =
       <<"ffmpeg", "-y", "-f", "s16le", "-ar", "48000", "-ac", "1", "-i",
         "pipe:0", "-c:a", "libfdk_aac", "-profile:a", "aac_he", "-b:a",
         "320k", setup.output_file[2]>>

\* the monitor thread is inside a round of its loop, before the emit
InTick == mon \in {"exists", "getsize"}

\* C29: the file monitor only observes.  Every round of its loop emits
\* exactly one status, (FALSE, 0) when the file is missing or the stat
\* fails and the size in KB otherwise; no step of the monitor changes a
\* variable of the recorder, its stream or its encoders; a failed round
\* goes on to the sleep and the next loop test, and the thread ends only
\* once stop was requested; after the window has joined the thread and
\* dropped it, no status is emitted.
C29_MonitorObservesOnly ==
  /\ [](emits = (IF InTick THEN ticks - 1 ELSE ticks))
  /\ [](mon = "finished" => ~is_running)
  /\ [][/\ (mon' # mon \/ ticks' # ticks \/ emits' # emits) =>
            UNCHANGED recVars
        /\ (emits' # emits) =>
            /\ InTick
            /\ emits' = emits + 1
            /\ mon' = "sleep"
            /\ status' = IF file[1] < 0 \/ (mon = "getsize" /\ statError')
                         THEN <<FALSE, 0>>
                         ELSE <<TRUE, SizeKb(file[1])>>
        /\ (InTick /\ mon' # mon) =>
            (mon' = "getsize" \/ emits' = emits + 1)
        /\ (failedTicks' # failedTicks) =>
            (mon' = "sleep" /\ status' = <<FALSE, 0>>)
        /\ (mon = "sleep" /\ mon' # mon) => mon' = "top"
        /\ (mon' = "finished" /\ mon # "finished") => ~is_running
        /\ (ui = "stopped" \/ ui' = "stopped") =>
            (emits' = emits /\ ticks' = ticks /\ mon' = "finished"
             /\ ~file_monitor')]_vars

\* a round that failed was followed by a round that reported 2 KB, and the
\* window then stopped and joined the monitor
C29_Witness ==
  /\ ui = "stopped"
  /\ ~file_monitor
  /\ mon = "finished"
  /\ failedTicks = 1
  /\ ticks = 2
  /\ emits = 2
  /\ status = <<TRUE, 2>>

\* C30: at most one report generation (a running thread or an open
\* rejection dialog) is in flight and no timer is pending beside it; the
\* files are taken up in the order they were queued, each entry once, the
\* queue holding exactly the entries not yet finished; and the processing
\* flag is false exactly when the queue is empty and nothing is in flight.
C30_OneReportAtATimeInOrder ==
  /\ InFlight + timers <= 1
  /\ IsPrefix(started, accepted)
  /\ Len(started) = handled + InFlight
  /\ report_queue = SubSeq(accepted, handled + 1, Len(accepted))
  /\ ~is_report_processing <=> (report_queue = <<>> /\ InFlight = 0)

\* three requests were served in order, one of them rejected because its
\* file had vanished, and the queue is at rest again
C30_Witness ==
  /\ accepted = <<1, 2, 1>>
  /\ started = accepted
  /\ handled = 3
  /\ rejected = 1
  /\ report_queue = <<>>
  /\ ~is_report_processing
  /\ InFlight = 0

====
